---- MODULE Spec2Model ----
(***************************************************************************)
(* A model of the tinygp repository's documentation build (docs/Makefile), *)
(* its tox test harness (tox.ini), and the mixture-of-kernels tutorial     *)
(* (docs/tutorials/mixture.ipynb) together with the kernel / transform /   *)
(* GaussianProcess surface the tutorial exercises.                         *)
(*                                                                         *)
(* A word of a command line and a file-system path are both written as a   *)
(* sequence of strings: <<"_build", "doctrees">> is _build/doctrees and    *)
(* <<"-b">> is the word -b.                                                *)
(***************************************************************************)
EXTENDS Integers, Sequences, FiniteSets, TLC

VARIABLES
    mk_fs,        \* the files that exist below docs/ (a set of paths)
    mk_queue,     \* recipe lines make still has to run in this invocation
    mk_goals,     \* the goals on the command line of the running (or last) invocation
    mk_builddir,  \* BUILDDIR as seen by the running invocation
    mk_paper,     \* PAPER as seen by the running invocation ("" = unset, or no invocation)
    mk_proc,      \* the child process make is waiting for
    mk_log,       \* what this invocation has done so far, in order
    mk_status,    \* "none" | "running" | "ok" | "error"
    mk_runs,      \* the make invocations started so far
    tx_installed, \* the Python interpreters found on this machine
    tx_python,    \* the interpreter tox itself runs on
    tx_osenv,     \* JAX_ENABLE_X64 in the environment tox was started from
    tx_posargs,   \* the words after -- on tox's command line
    tx_pc,        \* "idle" | "resolve" | "deps" | "package" | "commands" | "report" | "done"
    tx_env,       \* position in the environment list of the environment at work
    tx_cmd,       \* position of the next command of that environment
    tx_result,    \* per selected environment: "pending" | "ok" | "failed" | "skipped"
    tx_deps,      \* per environment: the deps installed into it
    tx_pkg,       \* per environment: the extras the package was installed with, or "none"
    tx_trace,     \* the commands started so far, in order, each with its outcome
    tx_exit,      \* "none" | "success" | "failure"
    gp_pc,        \* the tutorial's position: "start" | "built" | "sampled" | "fitted" | "mu1" | "mu2"
    gp_params,    \* the parameter dictionary build_gp was last called with
    gp_X,         \* the input coordinates, one (t, theta) pair per datum
    gp_kernel1,   \* build_gp's local kernel1
    gp_kernel2,   \* build_gp's local kernel2
    gp,           \* the GaussianProcess object: its kernel, X and diag
    gp_y,         \* the data
    gp_mu,        \* the predictive means computed so far: mu1, mu2
    gp_calls      \* the GaussianProcess methods called to get a mean, in order

makeVars == <<mk_fs, mk_queue, mk_goals, mk_builddir, mk_paper, mk_proc, mk_log,
              mk_status, mk_runs>>

toxVars == <<tx_installed, tx_python, tx_osenv, tx_posargs, tx_pc, tx_env, tx_cmd, tx_result,
             tx_deps, tx_pkg, tx_trace, tx_exit>>

gpVars == <<gp_pc, gp_params, gp_X, gp_kernel1, gp_kernel2, gp, gp_y, gp_mu, gp_calls>>

vars == <<makeVars, toxVars, gpVars>>

\* what a step of make, of tox, and of the tutorial leaves alone
notMake == <<toxVars, gpVars>>
notTox == <<makeVars, gpVars>>
notGP == <<makeVars, toxVars>>

-----------------------------------------------------------------------------
(* Bounds *)

\* make invocations in one behaviour
MaxRuns == 2

\* data points of the tutorial's dataset
NData == 2

\* each input coordinate (t, theta) is a whole number in 0..MaxCoord
MaxCoord == 1

-----------------------------------------------------------------------------
(* Paths *)

IsPrefix(p, q) == Len(p) <= Len(q) /\ SubSeq(q, 1, Len(p)) = p

\* a path with its "." components dropped: <<".">> is the directory itself
Norm(p) == SelectSeq(p, LAMBDA c : c # ".")

Under(dir, files) == {p \in files : IsPrefix(dir, p) /\ Len(p) > Len(dir)}

Outside(dir, files) == files \ Under(dir, files)

\* a name the shell's * does not match: one that starts with a dot
Hidden(name) == Len(name) >= 1 /\ SubSeq(name, 1, 1) = "."

\* the expansion of dir/* : the entries directly inside dir whose name does
\* not start with a dot
GlobStar(dir, files) ==
    {e \in {SubSeq(p, 1, Len(dir) + 1) : p \in Under(dir, files)} :
        ~Hidden(e[Len(dir) + 1])}

\* rm -rf of the given entries: each entry and everything below it
RmRf(targets, files) ==
    {p \in files : \A t \in targets : ~IsPrefix(t, p)}

-----------------------------------------------------------------------------
(* docs/Makefile *)

SPHINXOPTS == <<>>

SPHINXBUILD == <<"sphinx-build">>

BUILDDIR == <<"_build">>

\* PAGES is set nowhere: it expands to nothing
PAGES == <<>>

\* $(PAPEROPT_$(PAPER))
PAPEROPT(paper) ==
    CASE paper = "a4"     -> << <<"-D">>, <<"latex_paper_size=a4">> >>
      [] paper = "letter" -> << <<"-D">>, <<"latex_paper_size=letter">> >>
      [] OTHER            -> <<>>

ALLSPHINXOPTS(builddir, paper) ==
    << <<"-d">>, builddir \o <<"doctrees">> >> \o PAPEROPT(paper)
        \o SPHINXOPTS \o << <<".">> >>

\* the recipe lines; silent is the @ prefix, ignore the - prefix (an error of
\* the line is ignored); no line of this Makefile has a - prefix
CleanRecipe ==
    << [cmd |-> "rm", silent |-> FALSE, ignore |-> FALSE] >>

DirhtmlRecipeIgnoringErrors ==
    << [cmd |-> "sphinx", silent |-> FALSE, ignore |-> TRUE],
       [cmd |-> "echo",   silent |-> TRUE,  ignore |-> FALSE],
       [cmd |-> "msg",    silent |-> TRUE,  ignore |-> FALSE] >>

DirhtmlRecipe ==
    << [cmd |-> "sphinx", silent |-> FALSE, ignore |-> FALSE],
       [cmd |-> "echo",   silent |-> TRUE,  ignore |-> FALSE],
       [cmd |-> "msg",    silent |-> TRUE,  ignore |-> FALSE] >>

\* the rules in file order (.PHONY lines are special targets, never goals)
Rules ==
    << [target |-> "default", prereqs |-> <<"dirhtml">>, recipe |-> <<>>],
       [target |-> "clean",   prereqs |-> PAGES,         recipe |-> CleanRecipe],
       [target |-> "dirhtml", prereqs |-> PAGES,         recipe |-> DirhtmlRecipe] >>

Targets == {Rules[i].target : i \in DOMAIN Rules}

RuleOf(t) == Rules[CHOOSE i \in DOMAIN Rules : Rules[i].target = t]

\* with no goal on the command line make builds the first rule's target
DefaultGoal == Rules[1].target

\* the targets make remakes for the goals ts, in the order it remakes them:
\* a target's prerequisites before the target, the goals left to right, and
\* no target twice in one invocation (done holds those already remade)
RECURSIVE Remade(_, _)
Remade(ts, done) ==
    IF ts = <<>> THEN done
    ELSE IF \E i \in DOMAIN done : done[i] = Head(ts)
         THEN Remade(Tail(ts), done)
         ELSE Remade(Tail(ts), Append(Remade(RuleOf(Head(ts)).prereqs, done), Head(ts)))

RECURSIVE Recipes(_)
Recipes(ts) ==
    IF ts = <<>> THEN <<>> ELSE RuleOf(Head(ts)).recipe \o Recipes(Tail(ts))

\* the recipe lines make runs for the goals ts (clean and dirhtml are phony
\* and default depends on a phony target, so every target asked for is
\* remade)
Plan(ts) == Recipes(Remade(ts, <<>>))

DirhtmlCmdOutsideBuilddir(builddir, paper) ==
    <<SPHINXBUILD, <<"-b">>, <<"dirhtml">> >> \o ALLSPHINXOPTS(builddir, paper)
        \o << <<"dirhtml">> >>

\* line 19: $(SPHINXBUILD) -b dirhtml $(ALLSPHINXOPTS) $(BUILDDIR)/dirhtml
DirhtmlCmd(builddir, paper) ==
    <<SPHINXBUILD, <<"-b">>, <<"dirhtml">> >> \o ALLSPHINXOPTS(builddir, paper)
        \o << builddir \o <<"dirhtml">> >>

CleanTargetsHere(builddir, files) ==
    GlobStar(<<>>, files) \cup {PAGES[i] : i \in DOMAIN PAGES}

\* line 15: rm -rf $(BUILDDIR)/* $(PAGES)
CleanTargets(builddir, files) ==
    GlobStar(Norm(builddir), files) \cup {PAGES[i] : i \in DOMAIN PAGES}

CleanFs(builddir, files) == RmRf(CleanTargets(builddir, files), files)

\* line 21: the directory the message names
MsgDir(builddir) == builddir \o <<"dirhtml">>

-----------------------------------------------------------------------------
(* sphinx-build, as far as the Makefile's command line drives it *)

OptsWithArg == { <<"-b">>, <<"-d">>, <<"-D">> }

RECURSIVE Positional(_)
Positional(args) ==
    IF args = <<>> THEN <<>>
    ELSE IF Head(args) \in OptsWithArg
         THEN (IF Len(args) >= 2 THEN Positional(Tail(Tail(args))) ELSE <<>>)
         ELSE <<Head(args)>> \o Positional(Tail(args))

RECURSIVE OptArg(_, _, _)
OptArg(args, opt, dflt) ==
    IF Len(args) < 2 THEN dflt
    ELSE IF Head(args) = opt THEN args[2]
    ELSE IF Head(args) \in OptsWithArg THEN OptArg(Tail(Tail(args)), opt, dflt)
    ELSE OptArg(Tail(args), opt, dflt)

SphinxArgs(argv) == Tail(argv)
SphinxBuilder(argv) == OptArg(SphinxArgs(argv), <<"-b">>, <<"html">>)
SphinxSrcDir(argv) == Norm(Positional(SphinxArgs(argv))[1])
SphinxOutDir(argv) == Norm(Positional(SphinxArgs(argv))[2])
SphinxDoctreeDir(argv) ==
    Norm(OptArg(SphinxArgs(argv), <<"-d">>, SphinxOutDir(argv) \o <<".doctrees">>))

\* the documents of the source directory: api.rst and
\* tutorials/mixture.ipynb
Docs == { <<"api">>, <<"tutorials", "mixture">> }

SourceFiles ==
    { <<"Makefile">>, <<"api.rst">>, <<"tutorials", "mixture.ipynb">> }

\* what the reading phase leaves in the -d directory: one pickled doctree
\* per document
DoctreeFiles(argv) ==
    {SphinxDoctreeDir(argv) \o SubSeq(d, 1, Len(d) - 1) \o <<d[Len(d)] \o ".doctree">> :
        d \in Docs}

\* what the dirhtml builder leaves in the output directory: every document
\* as <name>/index.html, plus the .buildinfo stamp
PageFiles(argv) ==
    {SphinxOutDir(argv) \o d \o <<"index.html">> : d \in Docs}
    \cup {SphinxOutDir(argv) \o <<".buildinfo">>}

-----------------------------------------------------------------------------
(* make *)

Event(ev, arg) == [ev |-> ev, arg |-> arg]

\* BUILDDIR as make sees it: the Makefile's value, or one given on the
\* command line (line 3): another directory, or the docs directory itself
BuildDirs == { BUILDDIR, <<"out">>, <<".">> }

\* what docs/ holds before the first run: the sources, and possibly a file
\* kept in the build directory under a name that starts with a dot
InitialTrees == { SourceFiles, SourceFiles \cup { BUILDDIR \o <<".gitignore">> } }

Papers == { "", "a4", "letter" }

\* the goals of one command line: none, one target, or two
GoalLists ==
    { <<>> } \cup { <<a>> : a \in Targets } \cup { <<a, b>> : a \in Targets, b \in Targets }

MakeInit ==
    /\ mk_fs \in InitialTrees
    /\ mk_queue = <<>>
    /\ mk_goals = <<>>
    /\ mk_builddir = BUILDDIR
    /\ mk_paper = ""
    /\ mk_proc = <<>>
    /\ mk_log = <<>>
    /\ mk_status = "none"
    /\ mk_runs = 0

\* the end of an invocation: its exit status stays, its recipe lines, its
\* child and its PAPER are gone
Finish(status) ==
    /\ mk_status' = status
    /\ mk_queue' = <<>>
    /\ mk_proc' = <<>>
    /\ mk_paper' = ""

\* after a recipe line that succeeded: the next line, or the end
Advance ==
    IF Len(mk_queue) = 1
    THEN Finish("ok")
    ELSE /\ mk_queue' = Tail(mk_queue)
         /\ mk_proc' = <<>>
         /\ UNCHANGED <<mk_status, mk_paper>>

\* make [goal ...] [BUILDDIR=b] [PAPER=p]: make reads ./Makefile and runs
\* the recipe lines of the goals; with no Makefile in docs/ it stops with an
\* error before running anything
MakeInvoke(goals, builddir, paper) ==
    /\ mk_status # "running"
    /\ mk_runs < MaxRuns
    /\ mk_runs' = mk_runs + 1
    /\ mk_goals' = goals
    /\ mk_builddir' = builddir
    /\ mk_log' = <<>>
    /\ mk_proc' = <<>>
    /\ IF <<"Makefile">> \in mk_fs
       THEN /\ mk_paper' = paper
            /\ mk_queue' = Plan(IF goals = <<>> THEN <<DefaultGoal>> ELSE goals)
            /\ mk_status' = "running"
       ELSE /\ mk_paper' = ""
            /\ mk_queue' = <<>>
            /\ mk_status' = "error"
    /\ UNCHANGED mk_fs
    /\ UNCHANGED notMake

Running(cmd) ==
    /\ mk_status = "running"
    /\ mk_queue # <<>>
    /\ Head(mk_queue).cmd = cmd

\* line 15: rm removes every entry the shell passed to it and exits 0
RunRm ==
    /\ Running("rm")
    /\ mk_fs' = CleanFs(mk_builddir, mk_fs)
    /\ mk_log' = Append(mk_log, Event("rm", mk_builddir))
    /\ Advance
    /\ UNCHANGED <<mk_goals, mk_builddir, mk_runs>>
    /\ UNCHANGED notMake

\* line 15: rm exits non-zero and make stops with an error. Any of the
\* files rm was given may be left (a file or its directory may be
\* protected) and all the others are removed. mk_fs holds files, not
\* directories: rm may fail on a directory after it has removed every file,
\* or with no file to remove at all, so the files left may be none
RunRmFail ==
    /\ Running("rm")
    /\ \E kept \in SUBSET (mk_fs \ CleanFs(mk_builddir, mk_fs)) :
          mk_fs' = CleanFs(mk_builddir, mk_fs) \cup kept
    /\ mk_log' = Append(mk_log, Event("rm_fail", mk_builddir))
    /\ IF Head(mk_queue).ignore THEN Advance ELSE Finish("error")
    /\ UNCHANGED <<mk_goals, mk_builddir, mk_runs>>
    /\ UNCHANGED notMake

\* line 19: make starts $(SPHINXBUILD) and waits for it
SphinxStart ==
    /\ Running("sphinx")
    /\ mk_proc = <<>>
    /\ mk_proc' = DirhtmlCmd(mk_builddir, mk_paper)
    /\ mk_log' = Append(mk_log, Event("sphinx_start", mk_builddir))
    /\ UNCHANGED <<mk_fs, mk_queue, mk_goals, mk_builddir, mk_paper, mk_status, mk_runs>>
    /\ UNCHANGED notMake

\* the program make started pickles the doctrees into its -d directory
SphinxRead ==
    /\ Running("sphinx")
    /\ mk_proc # <<>>
    /\ ~(DoctreeFiles(mk_proc) \subseteq mk_fs)
    /\ mk_fs' = mk_fs \cup DoctreeFiles(mk_proc)
    /\ UNCHANGED <<mk_queue, mk_goals, mk_builddir, mk_paper, mk_proc, mk_log,
                   mk_status, mk_runs>>
    /\ UNCHANGED notMake

\* the program make started writes the pages into its output directory
SphinxWrite ==
    /\ Running("sphinx")
    /\ mk_proc # <<>>
    /\ ~(PageFiles(mk_proc) \subseteq mk_fs)
    /\ mk_fs' = mk_fs \cup PageFiles(mk_proc)
    /\ UNCHANGED <<mk_queue, mk_goals, mk_builddir, mk_paper, mk_proc, mk_log,
                   mk_status, mk_runs>>
    /\ UNCHANGED notMake

\* the program exits 0, whatever it has written by then: make looks at the
\* exit status only and goes on to the next line
SphinxExitOk ==
    /\ Running("sphinx")
    /\ mk_proc # <<>>
    /\ mk_log' = Append(mk_log, Event("sphinx_ok", SphinxOutDir(mk_proc)))
    /\ Advance
    /\ UNCHANGED <<mk_fs, mk_goals, mk_builddir, mk_runs>>
    /\ UNCHANGED notMake

\* the program exits non-zero at any point: make stops with an error (unless
\* the line says to ignore it)
SphinxExitFail ==
    /\ Running("sphinx")
    /\ mk_proc # <<>>
    /\ mk_log' = Append(mk_log, Event("sphinx_fail", SphinxOutDir(mk_proc)))
    /\ IF Head(mk_queue).ignore THEN Advance ELSE Finish("error")
    /\ UNCHANGED <<mk_fs, mk_goals, mk_builddir, mk_runs>>
    /\ UNCHANGED notMake

\* line 20
RunEcho ==
    /\ Running("echo")
    /\ mk_log' = Append(mk_log, Event("blank", <<>>))
    /\ Advance
    /\ UNCHANGED <<mk_fs, mk_goals, mk_builddir, mk_runs>>
    /\ UNCHANGED notMake

\* line 21
RunMsg ==
    /\ Running("msg")
    /\ mk_log' = Append(mk_log, Event("msg", MsgDir(mk_builddir)))
    /\ Advance
    /\ UNCHANGED <<mk_fs, mk_goals, mk_builddir, mk_runs>>
    /\ UNCHANGED notMake

MakeNext ==
    \/ \E g \in GoalLists, b \in BuildDirs, p \in Papers : MakeInvoke(g, b, p)
    \/ RunRm
    \/ RunRmFail
    \/ SphinxStart
    \/ SphinxRead
    \/ SphinxWrite
    \/ SphinxExitOk
    \/ SphinxExitFail
    \/ RunEcho
    \/ RunMsg

-----------------------------------------------------------------------------
(* tox.ini *)

\* py + 38 is py38: the names brace expansion can build here
Concat(a, b) ==
    CASE a = "py" /\ b = "38"  -> "py38"
      [] a = "py" /\ b = "39"  -> "py39"
      [] a = "py" /\ b = "310" -> "py310"

\* line 2: envlist = py{38,39,310},doctest,lint
EnvlistItems ==
    << [prefix |-> "py",      alts |-> <<"38", "39", "310">>],
       [prefix |-> "doctest", alts |-> <<>>],
       [prefix |-> "lint",    alts |-> <<>>] >>

ExpandItem(item) ==
    IF item.alts = <<>> THEN <<item.prefix>>
    ELSE [i \in 1..Len(item.alts) |-> Concat(item.prefix, item.alts[i])]

RECURSIVE ExpandAll(_)
ExpandAll(items) ==
    IF items = <<>> THEN <<>> ELSE ExpandItem(Head(items)) \o ExpandAll(Tail(items))

EnvList == ExpandAll(EnvlistItems)

SkipMissingInterpretersOff == FALSE

\* line 3
SkipMissingInterpreters == TRUE

\* lines 5-9 ([gh-actions]) and tox's reading of a pyXY factor
PyFactor == [py38 |-> "python3.8", py39 |-> "python3.9", py310 |-> "python3.10"]

Pythons == {PyFactor[f] : f \in DOMAIN PyFactor}

\* the interpreters tox may be run with: one of the above, or a newer one
ToxPythons == Pythons \cup {"python3.11"}

PipFreeze == << <<"pip">>, <<"freeze">> >>

CoveragePytest ==
    << <<"python">>, <<"-m">>, <<"coverage">>, <<"run">>, <<"-m">>, <<"pytest">>,
       <<"-v">>, <<"{posargs}">> >>

DoctestPytest ==
    << <<"python">>, <<"-m">>, <<"pytest">>, <<"--doctest-modules">>, <<"-v">>,
       <<"{envsitepackagesdir}", "tinygp">>, <<"{posargs}">> >>

PreCommit == << <<"pre-commit">>, <<"run">>, <<"--all-files">> >>

TestenvPytestFirst ==
    [ setenv   |-> << <<"JAX_ENABLE_X64", "True">> >>,
      deps     |-> <<"coverage[toml]">>,
      extras   |-> <<"test">>,
      commands |-> <<CoveragePytest, PipFreeze>> ]

\* lines 11-17
Testenv ==
    [ setenv   |-> << <<"JAX_ENABLE_X64", "True">> >>,
      deps     |-> <<"coverage[toml]">>,
      extras   |-> <<"test">>,
      commands |-> <<PipFreeze, CoveragePytest>> ]

\* lines 19-24
TestenvDoctest ==
    [ deps     |-> <<"numpyro">>,
      extras   |-> <<"test">>,
      commands |-> <<PipFreeze, DoctestPytest>> ]

\* lines 26-30
TestenvLint ==
    [ skip_install |-> TRUE,
      deps         |-> <<"pre-commit">>,
      commands     |-> <<PreCommit>> ]

NamedSections == [doctest |-> TestenvDoctest, lint |-> TestenvLint]

\* what tox assumes for a key no section sets
Defaults ==
    [ setenv |-> <<>>, deps |-> <<>>, extras |-> <<>>, commands |-> <<>>,
      skip_install |-> FALSE, passenv |-> <<>>, ignore_errors |-> FALSE ]

\* the section that defines an environment: [testenv:NAME] when there is one,
\* [testenv] otherwise
SectionOf(env) ==
    IF env \in DOMAIN NamedSections THEN <<"testenv", env>> ELSE <<"testenv">>

LookupOwnSectionOnly(env, key) ==
    IF env \in DOMAIN NamedSections
    THEN (IF key \in DOMAIN NamedSections[env] THEN NamedSections[env][key]
          ELSE Defaults[key])
    ELSE IF key \in DOMAIN Testenv THEN Testenv[key]
    ELSE Defaults[key]

\* a key of an environment: its own section's value, replacing (not merging
\* with) [testenv]'s; [testenv]'s when its own section does not set the key
Lookup(env, key) ==
    IF env \in DOMAIN NamedSections /\ key \in DOMAIN NamedSections[env]
    THEN NamedSections[env][key]
    ELSE IF key \in DOMAIN Testenv THEN Testenv[key]
    ELSE Defaults[key]

\* the interpreter an environment needs: pyXY names one, any other
\* environment runs on the interpreter tox itself runs on
Interpreter(env, python) ==
    IF env \in DOMAIN PyFactor THEN PyFactor[env] ELSE python

InterpreterFound(env, installed, python) == Interpreter(env, python) \in installed

\* the directory tox.ini is in, an absolute path ("/" is the root)
ToxIniDir == <<"/", "tinygp">>

\* {toxworkdir}
ToxWorkDir == ToxIniDir \o <<".tox">>

\* {envsitepackagesdir}: lib/pythonX.Y/site-packages of the environment's
\* virtualenv (a POSIX one)
EnvSitePackagesDir(env, python) ==
    ToxWorkDir \o <<env, "lib", Interpreter(env, python), "site-packages">>

\* {posargs} and {envsitepackagesdir} replaced in one word: a word list
SubstWord(w, env, posargs, python) ==
    IF w = <<"{posargs}">> THEN posargs
    ELSE IF Head(w) = "{envsitepackagesdir}"
         THEN << EnvSitePackagesDir(env, python) \o Tail(w) >>
    ELSE <<w>>

RECURSIVE SubstCmd(_, _, _, _)
SubstCmd(cmd, env, posargs, python) ==
    IF cmd = <<>> THEN <<>>
    ELSE SubstWord(Head(cmd), env, posargs, python)
            \o SubstCmd(Tail(cmd), env, posargs, python)

Commands(env, posargs, python) ==
    [i \in 1..Len(Lookup(env, "commands")) |->
        SubstCmd(Lookup(env, "commands")[i], env, posargs, python)]

RECURSIVE SetenvValue(_, _, _)
SetenvValue(pairs, name, dflt) ==
    IF pairs = <<>> THEN dflt
    ELSE IF Head(pairs)[1] = name THEN Head(pairs)[2]
    ELSE SetenvValue(Tail(pairs), name, dflt)

\* the value of a variable in the environment of an environment's commands:
\* setenv's, else the invoking environment's when passenv lets it through
EnvVar(env, name, osvalue) ==
    SetenvValue(Lookup(env, "setenv"), name,
        IF \E i \in DOMAIN Lookup(env, "passenv") : Lookup(env, "passenv")[i] = name
        THEN osvalue ELSE "unset")

-----------------------------------------------------------------------------
(* a tox run with no -e: the environments of envlist, one after the other *)

EnvSet == {EnvList[i] : i \in DOMAIN EnvList}

ToxIdle ==
    /\ tx_installed = {}
    /\ tx_python = "none"
    /\ tx_osenv = "unset"
    /\ tx_posargs = <<>>
    /\ tx_pc = "idle"
    /\ tx_env = 0
    /\ tx_cmd = 0
    /\ tx_result = [e \in EnvSet |-> "pending"]
    /\ tx_deps = [e \in EnvSet |-> <<>>]
    /\ tx_pkg = [e \in EnvSet |-> "none"]
    /\ tx_trace = <<>>
    /\ tx_exit = "none"

CurEnv == EnvList[tx_env]

\* the environment at work ends with result r; on to the next one
EndEnv(r) ==
    /\ tx_result' = [tx_result EXCEPT ![CurEnv] = r]
    /\ tx_cmd' = 0
    /\ IF tx_env < Len(EnvList)
       THEN tx_env' = tx_env + 1 /\ tx_pc' = "resolve"
       ELSE tx_env' = tx_env /\ tx_pc' = "report"

\* tox [-- posargs], run with the interpreter python on a machine that has
\* the interpreters installed
ToxStart(installed, python, osenv, posargs) ==
    /\ tx_pc = "idle"
    /\ python \in installed
    /\ tx_installed' = installed
    /\ tx_python' = python
    /\ tx_osenv' = osenv
    /\ tx_posargs' = posargs
    /\ tx_env' = 1
    /\ tx_pc' = "resolve"
    /\ UNCHANGED <<tx_cmd, tx_result, tx_deps, tx_pkg, tx_trace, tx_exit>>
    /\ UNCHANGED notTox

\* the environment's interpreter is looked up
ResolveFound ==
    /\ tx_pc = "resolve"
    /\ InterpreterFound(CurEnv, tx_installed, tx_python)
    /\ tx_pc' = "deps"
    /\ UNCHANGED <<tx_installed, tx_python, tx_osenv, tx_posargs, tx_env, tx_cmd, tx_result,
                   tx_deps, tx_pkg, tx_trace, tx_exit>>
    /\ UNCHANGED notTox

ResolveMissing ==
    /\ tx_pc = "resolve"
    /\ ~InterpreterFound(CurEnv, tx_installed, tx_python)
    /\ EndEnv(IF SkipMissingInterpreters THEN "skipped" ELSE "failed")
    /\ UNCHANGED <<tx_installed, tx_python, tx_osenv, tx_posargs, tx_deps, tx_pkg, tx_trace, tx_exit>>
    /\ UNCHANGED notTox

\* the virtualenv is made and deps installed into it
InstallDeps(ok) ==
    /\ tx_pc = "deps"
    /\ IF ok
       THEN /\ tx_deps' = [tx_deps EXCEPT ![CurEnv] = Lookup(CurEnv, "deps")]
            /\ tx_pc' = "package"
            /\ UNCHANGED <<tx_env, tx_cmd, tx_result>>
       ELSE /\ EndEnv("failed")
            /\ UNCHANGED tx_deps
    /\ UNCHANGED <<tx_installed, tx_python, tx_osenv, tx_posargs, tx_pkg, tx_trace, tx_exit>>
    /\ UNCHANGED notTox

FirstCommand ==
    IF Len(Lookup(CurEnv, "commands")) = 0
    THEN EndEnv("ok")
    ELSE tx_pc' = "commands" /\ tx_cmd' = 1 /\ UNCHANGED <<tx_env, tx_result>>

\* the package is built and installed with its extras
InstallPackage(ok) ==
    /\ tx_pc = "package"
    /\ ~Lookup(CurEnv, "skip_install")
    /\ IF ok
       THEN /\ tx_pkg' = [tx_pkg EXCEPT ![CurEnv] = Lookup(CurEnv, "extras")]
            /\ FirstCommand
       ELSE /\ EndEnv("failed")
            /\ UNCHANGED tx_pkg
    /\ UNCHANGED <<tx_installed, tx_python, tx_osenv, tx_posargs, tx_deps, tx_trace, tx_exit>>
    /\ UNCHANGED notTox

\* skip_install = true
SkipInstall ==
    /\ tx_pc = "package"
    /\ Lookup(CurEnv, "skip_install")
    /\ FirstCommand
    /\ UNCHANGED <<tx_installed, tx_python, tx_osenv, tx_posargs, tx_deps, tx_pkg, tx_trace, tx_exit>>
    /\ UNCHANGED notTox

CommandRunning ==
    tx_trace # <<>> /\ tx_trace[Len(tx_trace)].status = "running"

\* the next command of the environment is started
CommandStart ==
    /\ tx_pc = "commands"
    /\ ~CommandRunning
    /\ tx_trace' = Append(tx_trace,
          [ env    |-> CurEnv,
            argv   |-> Commands(CurEnv, tx_posargs, tx_python)[tx_cmd],
            jax64  |-> EnvVar(CurEnv, "JAX_ENABLE_X64", tx_osenv),
            status |-> "running" ])
    /\ UNCHANGED <<tx_installed, tx_python, tx_osenv, tx_posargs, tx_pc, tx_env, tx_cmd, tx_result,
                   tx_deps, tx_pkg, tx_exit>>
    /\ UNCHANGED notTox

\* the command exits: 0 goes on to the next command, anything else ends the
\* environment as failed (unless ignore_errors)
CommandExit(ok) ==
    /\ tx_pc = "commands"
    /\ CommandRunning
    /\ tx_trace' = [tx_trace EXCEPT ![Len(tx_trace)].status =
                        IF ok THEN "ok" ELSE "failed"]
    /\ IF ~ok /\ ~Lookup(CurEnv, "ignore_errors")
       THEN EndEnv("failed")
       ELSE IF tx_cmd < Len(Lookup(CurEnv, "commands"))
            THEN tx_cmd' = tx_cmd + 1 /\ UNCHANGED <<tx_pc, tx_env, tx_result>>
            ELSE EndEnv(IF \E i \in DOMAIN tx_trace' :
                              tx_trace'[i].env = CurEnv /\ tx_trace'[i].status = "failed"
                        THEN "failed" ELSE "ok")
    /\ UNCHANGED <<tx_installed, tx_python, tx_osenv, tx_posargs, tx_deps, tx_pkg, tx_exit>>
    /\ UNCHANGED notTox

\* the summary: the run fails when an environment failed; a skipped one does not count
Report ==
    /\ tx_pc = "report"
    /\ tx_exit' = IF \E e \in EnvSet : tx_result[e] = "failed"
                  THEN "failure" ELSE "success"
    /\ tx_pc' = "done"
    /\ UNCHANGED <<tx_installed, tx_python, tx_osenv, tx_posargs, tx_env, tx_cmd, tx_result,
                   tx_deps, tx_pkg, tx_trace>>
    /\ UNCHANGED notTox

OsEnvValues == {"unset", "False"}
PosargsValues == { <<>>, << <<"-x">> >> }

ToxNext ==
    \/ \E inst \in SUBSET ToxPythons, py \in ToxPythons, o \in OsEnvValues,
          pa \in PosargsValues :
          ToxStart(inst, py, o, pa)
    \/ ResolveFound
    \/ ResolveMissing
    \/ \E ok \in BOOLEAN : InstallDeps(ok)
    \/ \E ok \in BOOLEAN : InstallPackage(ok)
    \/ SkipInstall
    \/ CommandStart
    \/ \E ok \in BOOLEAN : CommandExit(ok)
    \/ Report

-----------------------------------------------------------------------------
(* Numbers: a real v is held as the integer nearest to v * Unit; the
   exponential and the sine are computed to 1 / Fine and rounded *)

Unit == 100

Fine == 10000

\* sqrt(3) and pi, in 1 / Fine
Sqrt3 == 17321
Pi == 31416

Abs(a) == IF a < 0 THEN -a ELSE a

\* a / b to the nearest integer, a >= 0 and b > 0
RDiv(a, b) == (2 * a + b) \div (2 * b)

Round(a, b) == IF a < 0 THEN -RDiv(-a, b) ELSE RDiv(a, b)

\* the product of two numbers in 1 / Unit
Mul(a, b) == Round(a * b, Unit)

ToUnit(v) == RDiv(v, Fine \div Unit)

Square(v) == RDiv(v * v, Fine)

\* the terms (-x)^k / k! from the k-th on, t = x^k / k!
RECURSIVE ExpSeries(_, _, _)
ExpSeries(x, k, t) ==
    IF t = 0 THEN 0
    ELSE (IF k % 2 = 0 THEN t ELSE -t) + ExpSeries(x, k + 1, RDiv(t * x, (k + 1) * Fine))

\* exp(-x), x >= 0, both in 1 / Fine
RECURSIVE ExpNeg(_)
ExpNeg(x) ==
    IF 2 * x <= Fine THEN ExpSeries(x, 0, Fine) ELSE Square(ExpNeg(x \div 2))

\* the terms of the sine series from the k-th power on, a2 = a^2, t = a^k / k!
RECURSIVE SinSeries(_, _, _)
SinSeries(a2, k, t) ==
    IF t = 0 THEN 0
    ELSE (IF k % 4 = 1 THEN t ELSE -t)
            + SinSeries(a2, k + 2, RDiv(t * a2, (k + 1) * (k + 2) * Fine))

\* sin(a), 0 <= a <= pi / 2, both in 1 / Fine
Sin(a) == SinSeries(Square(a), 1, a)

\* sin(pi r)^2 for r >= 0: of period 1 in r and symmetric about 1/2
SinPiSquared(r) ==
    Square(Sin(RDiv(Pi * (IF 2 * (r % Fine) > Fine THEN Fine - (r % Fine) ELSE r % Fine),
                    Fine)))

-----------------------------------------------------------------------------
(* Kernels and transforms (tinygp.kernels, tinygp.transforms) *)

\* f[1..n] written out as a sequence, each entry evaluated once
RECURSIVE Tabulate(_, _)
Tabulate(f, n) == IF n = 0 THEN <<>> ELSE Append(Tabulate(f, n - 1), f[n])

Constant(c) == [type |-> "Constant", value |-> c]

\* the stationary kernels of the tutorial; Matern32() has scale 1
Matern32 == [type |-> "Matern32", scale |-> Unit]

ExpSquared(scale) == [type |-> "ExpSquared", scale |-> scale]

ExpSineSquared(scale, gamma) ==
    [type |-> "ExpSineSquared", scale |-> scale, gamma |-> gamma]

\* k1 + k2
Sum(k1, k2) == [type |-> "Sum", kernel1 |-> k1, kernel2 |-> k2]

\* k1 * k2
Product(k1, k2) == [type |-> "Product", kernel1 |-> k1, kernel2 |-> k2]

\* a * k, a scalar
Scale(a, k) == Product(Constant(a), k)

Linear(scale, k) ==
    [type |-> "Transform", transform |-> [type |-> "Linear", scale |-> scale],
     kernel |-> k]

Subspace(axis, k) ==
    [type |-> "Transform", transform |-> [type |-> "Subspace", axis |-> axis],
     kernel |-> k]

\* the transformed coordinate: Subspace picks one axis (counted from 0),
\* Linear multiplies by its scale
ApplyTransform(T, x) ==
    IF T.type = "Subspace" THEN << x[T.axis + 1] >>
    ELSE Tabulate([i \in DOMAIN x |-> Mul(T.scale[i], x[i])], Len(x))

\* the L1 distance and the squared L2 distance of two coordinates
RECURSIVE L1Distance(_, _)
L1Distance(x1, x2) ==
    IF x1 = <<>> THEN 0
    ELSE Abs(Head(x1) - Head(x2)) + L1Distance(Tail(x1), Tail(x2))

RECURSIVE L2SquaredDistance(_, _)
L2SquaredDistance(x1, x2) ==
    IF x1 = <<>> THEN 0
    ELSE Mul(Head(x1) - Head(x2), Head(x1) - Head(x2))
            + L2SquaredDistance(Tail(x1), Tail(x2))

\* (1 + arg) exp(-arg), arg = sqrt(3) r in 1 / Fine
Matern32Value(arg) == ToUnit(RDiv((Fine + arg) * ExpNeg(arg), Fine))

\* k(x1, x2)
RECURSIVE Evaluate(_, _, _)
Evaluate(k, x1, x2) ==
    CASE k.type = "Constant"   -> k.value
      [] k.type = "Matern32"   ->
            Matern32Value(RDiv(L1Distance(x1, x2) * Sqrt3, k.scale))
      [] k.type = "ExpSquared" ->
            ToUnit(ExpNeg(RDiv(RDiv(L2SquaredDistance(x1, x2) * Fine,
                                    Mul(k.scale, k.scale)), 2)))
      [] k.type = "ExpSineSquared" ->
            ToUnit(ExpNeg(RDiv(k.gamma
                                * SinPiSquared(RDiv(L1Distance(x1, x2) * Fine, k.scale)),
                               Unit)))
      [] k.type = "Sum"        -> Evaluate(k.kernel1, x1, x2) + Evaluate(k.kernel2, x1, x2)
      [] k.type = "Product"    ->
            Mul(Evaluate(k.kernel1, x1, x2), Evaluate(k.kernel2, x1, x2))
      [] k.type = "Transform"  ->
            Evaluate(k.kernel, ApplyTransform(k.transform, x1),
                     ApplyTransform(k.transform, x2))

\* the matrix k(X1, X2)
CovMatrix(k, X1, X2) ==
    Tabulate([i \in DOMAIN X1 |->
                Tabulate([j \in DOMAIN X2 |-> Evaluate(k, X1[i], X2[j])], Len(X2))],
             Len(X1))

-----------------------------------------------------------------------------
(* Exact linear algebra: a vector of rationals is its numerators over one
   denominator *)

Minor(A, j) ==
    Tabulate([r \in 1..(Len(A) - 1) |->
                Tabulate([c \in 1..(Len(A) - 1) |-> A[r + 1][IF c < j THEN c ELSE c + 1]],
                         Len(A) - 1)],
             Len(A) - 1)

RECURSIVE Det(_), DetFrom(_, _)
Det(A) == IF Len(A) = 1 THEN A[1][1] ELSE DetFrom(A, 1)
DetFrom(A, j) ==
    IF j > Len(A) THEN 0
    ELSE (IF j % 2 = 1 THEN 1 ELSE -1) * A[1][j] * Det(Minor(A, j)) + DetFrom(A, j + 1)

ReplaceCol(A, i, y) ==
    Tabulate([r \in DOMAIN A |->
                Tabulate([c \in DOMAIN A |-> IF c = i THEN y[r] ELSE A[r][c]], Len(A))],
             Len(A))

\* A^-1 y by Cramer's rule
Solve(A, y) ==
    [num |-> Tabulate([i \in DOMAIN A |-> Det(ReplaceCol(A, i, y))], Len(A)),
     den |-> Det(A)]

RECURSIVE SumTo(_, _)
SumTo(f, n) == IF n = 0 THEN 0 ELSE f[n] + SumTo(f, n - 1)

\* M^T v for a rational vector v
MatTVec(M, v) ==
    [num |-> Tabulate([j \in DOMAIN M[1] |->
                          SumTo([i \in DOMAIN M |-> M[i][j] * v.num[i]], Len(M))],
                      Len(M[1])),
     den |-> v.den]

-----------------------------------------------------------------------------
(* tinygp.GaussianProcess *)

NoKernel == [type |-> "None"]

NoMean == [num |-> <<>>, den |-> 0]

GaussianProcess(kernel, X, diag) == [kernel |-> kernel, X |-> X, diag |-> diag]

\* K(X, X) + N, N the diagonal observation noise
NoisyCov(g) ==
    Tabulate([i \in DOMAIN g.X |->
                Tabulate([j \in DOMAIN g.X |->
                            Evaluate(g.kernel, g.X[i], g.X[j])
                                + (IF i = j THEN g.diag ELSE 0)],
                         Len(g.X))],
             Len(g.X))

\* condition(y, kernel=kernel).gp.loc at the process's own inputs: the solve
\* uses the process's kernel plus noise, the cross-covariance the kernel given
\* (the process's own when none is)
Condition(g, y, kernel) ==
    MatTVec(CovMatrix(IF kernel = NoKernel THEN g.kernel ELSE kernel, g.X, g.X),
            Solve(NoisyCov(g), y))

-----------------------------------------------------------------------------
(* docs/tutorials/mixture.ipynb *)

\* t in [0, 10] and theta in (-pi, pi), here whole numbers
Coords == {<<t * Unit, th * Unit>> : t \in 0..MaxCoord, th \in 0..MaxCoord}

\* line 81-83: X = (t, theta) rows, t sorted
Datasets ==
    {X \in [1..NData -> Coords] : \A i \in 1..(NData - 1) : X[i][1] <= X[i + 1][1]}

\* the values a sample of y takes here (y itself, not in 1 / Unit)
YValues == {-1, 2}

\* lines 102-110, exponentiated as build_gp does
true_params ==
    [amp1 |-> 2 * Unit, scale1 |-> <<2 * Unit, (8 * Unit) \div 10>>, amp2 |-> 2 * Unit,
     scale2 |-> (35 * Unit) \div 10, period |-> 2 * Unit, gamma |-> 10 * Unit,
     diag |-> Unit \div 2]

\* the parameter dictionaries build_gp is called with: true_params, and what
\* the fit may return
ParamSets ==
    [amp1 : {true_params.amp1}, scale1 : {true_params.scale1, <<Unit, Unit>>},
     amp2 : {true_params.amp2}, scale2 : {true_params.scale2},
     period : {true_params.period}, gamma : {true_params.gamma, Unit},
     diag : {true_params.diag}]

\* lines 87-89
BuildKernel1(params) == Scale(params.amp1, Linear(params.scale1, Matern32))

\* lines 90-97
BuildKernel2(params) ==
    Scale(params.amp2,
          Subspace(0, Product(ExpSquared(params.scale2),
                              ExpSineSquared(params.period, params.gamma))))

GPInit ==
    /\ gp_pc = "start"
    /\ gp_params = true_params
    /\ gp_X = <<>>
    /\ gp_kernel1 = NoKernel
    /\ gp_kernel2 = NoKernel
    /\ gp = GaussianProcess(NoKernel, <<>>, 0)
    /\ gp_y = <<>>
    /\ gp_mu = [mu1 |-> NoMean, mu2 |-> NoMean]
    /\ gp_calls = <<>>

\* lines 86-99: kernel = kernel1 + kernel2; GaussianProcess(kernel, X, diag=...)
build_gp(params) ==
    /\ gp_params' = params
    /\ gp_kernel1' = BuildKernel1(params)
    /\ gp_kernel2' = BuildKernel2(params)
    /\ gp' = GaussianProcess(Sum(BuildKernel1(params), BuildKernel2(params)),
                             gp_X', params.diag)

\* lines 79-83 and 111: the dataset is drawn and gp = build_gp(true_params)
BuildTrue ==
    /\ gp_pc = "start"
    /\ \E X \in Datasets :
          /\ gp_X' = X
          /\ build_gp(true_params)
    /\ gp_pc' = "built"
    /\ UNCHANGED <<gp_y, gp_mu, gp_calls>>
    /\ UNCHANGED notGP

\* line 112: y = gp.sample(...)
Sample ==
    /\ gp_pc = "built"
    /\ \E y \in [1..NData -> YValues] : gp_y' = y
    /\ gp_pc' = "sampled"
    /\ UNCHANGED <<gp_params, gp_X, gp_kernel1, gp_kernel2, gp, gp_mu, gp_calls>>
    /\ UNCHANGED notGP

\* lines 143-146 and 163: the fit returns some parameters and gp is rebuilt
Refit ==
    /\ gp_pc = "sampled"
    /\ gp_X' = gp_X
    /\ \E params \in ParamSets : build_gp(params)
    /\ gp_pc' = "fitted"
    /\ UNCHANGED <<gp_y, gp_mu, gp_calls>>
    /\ UNCHANGED notGP

Call(method, kwargs) == [method |-> method, kwargs |-> kwargs]

\* line 164: mu1 = gp.condition(y, kernel=gp.kernel.kernel1).gp.loc
ConditionMu1 ==
    /\ gp_pc = "fitted"
    /\ gp_mu' = [gp_mu EXCEPT !.mu1 = Condition(gp, gp_y, gp.kernel.kernel1)]
    /\ gp_calls' = Append(gp_calls, Call("condition", {"kernel"}))
    /\ gp_pc' = "mu1"
    /\ UNCHANGED <<gp_params, gp_X, gp_kernel1, gp_kernel2, gp, gp_y>>
    /\ UNCHANGED notGP

\* line 165: mu2 = gp.condition(y, kernel=gp.kernel.kernel2).gp.loc
ConditionMu2 ==
    /\ gp_pc = "mu1"
    /\ gp_mu' = [gp_mu EXCEPT !.mu2 = Condition(gp, gp_y, gp.kernel.kernel2)]
    /\ gp_calls' = Append(gp_calls, Call("condition", {"kernel"}))
    /\ gp_pc' = "mu2"
    /\ UNCHANGED <<gp_params, gp_X, gp_kernel1, gp_kernel2, gp, gp_y>>
    /\ UNCHANGED notGP

GPNext ==
    \/ BuildTrue
    \/ Sample
    \/ Refit
    \/ ConditionMu1
    \/ ConditionMu2

-----------------------------------------------------------------------------
(* Specifications *)

Init == MakeInit /\ ToxIdle /\ GPInit

SpecMake == Init /\ [][MakeNext]_vars

SpecTox == Init /\ [][ToxNext]_vars

SpecGP == Init /\ [][GPNext]_vars

-----------------------------------------------------------------------------
(* Properties of the documentation build *)

LogHas(ev) == \E i \in DOMAIN mk_log : mk_log[i].ev = ev

LastEv == IF mk_log = <<>> THEN "none" ELSE mk_log[Len(mk_log)].ev

\* the files sphinx-build's doctree and output directory hold for BUILDDIR b
OutputOf(b, files) ==
    {p \in files : IsPrefix(Norm(b \o <<"doctrees">>), p)
                      \/ IsPrefix(Norm(b \o <<"dirhtml">>), p)}

\* C7: make with no goal runs the recipe of dirhtml, the prerequisite of the
\* first rule, default; whatever the goals and BUILDDIR, the command make
\* starts is $(SPHINXBUILD) -b dirhtml -d $(BUILDDIR)/doctrees ... .
\* $(BUILDDIR)/dirhtml, and while it runs files are only added, below
\* those two directories; with BUILDDIR as the Makefile sets it every page
\* it adds is below _build/dirhtml and nothing outside _build changes.
T_C7_DefaultBuildsDirhtml ==
    [][ /\ DefaultGoal = "default"
        /\ RuleOf(DefaultGoal).prereqs = <<"dirhtml">>
        /\ RuleOf(DefaultGoal).recipe = <<>>
        /\ (mk_status # "running" /\ mk_status' = "running" /\ mk_goals' = <<>>)
              => mk_queue' = RuleOf("dirhtml").recipe
        /\ (mk_goals = <<>> /\ mk_status = "running" /\ mk_log = <<>>)
              => (mk_log' = <<Event("sphinx_start", mk_builddir)>> /\ mk_proc' # <<>>)
        /\ (mk_proc = <<>> /\ mk_proc' # <<>>) =>
              /\ mk_proc'[1] = SPHINXBUILD
              /\ SphinxBuilder(mk_proc') = <<"dirhtml">>
              /\ OptArg(SphinxArgs(mk_proc'), <<"-d">>, <<>>) = mk_builddir \o <<"doctrees">>
              /\ Positional(SphinxArgs(mk_proc'))
                    = << <<".">>, mk_builddir \o <<"dirhtml">> >>
        /\ mk_proc # <<>> =>
              /\ mk_fs \subseteq mk_fs'
              /\ (mk_fs' \ mk_fs) \subseteq OutputOf(mk_builddir, mk_fs')
              /\ SphinxDoctreeDir(mk_proc) = Norm(mk_builddir \o <<"doctrees">>)
              /\ SphinxOutDir(mk_proc) = Norm(mk_builddir \o <<"dirhtml">>)
              /\ mk_builddir = BUILDDIR =>
                    /\ Outside(<<"_build">>, mk_fs') = Outside(<<"_build">>, mk_fs)
                    /\ \A p \in mk_fs' \ mk_fs :
                          p[Len(p)] = "index.html" => IsPrefix(<<"_build", "dirhtml">>, p)
      ]_vars

W_C7_DefaultBuildDone ==
    /\ mk_goals = <<>> /\ mk_status = "ok" /\ mk_builddir = <<"_build">>
    /\ LastEv = "msg"
    /\ <<"_build", "dirhtml", "api", "index.html">> \in mk_fs
    /\ <<"_build", "doctrees", "api.doctree">> \in mk_fs
    /\ OutputOf(<<"out">>, mk_fs) = {} /\ OutputOf(<<".">>, mk_fs) = {}

\* C9: in every run, whatever its goals and BUILDDIR, the "Build finished"
\* message names $(BUILDDIR)/dirhtml and is printed only after sphinx-build
\* was started and has exited 0, never while it runs and never in a run in
\* which it failed; when sphinx-build fails make ends with an error, and no
\* later line or goal of that run is executed.
T_C9_MessageOnlyAfterSuccess ==
    /\ \A i \in DOMAIN mk_log :
           mk_log[i].ev = "msg" =>
              /\ \E j \in 1..(i - 1) :
                    /\ mk_log[j].ev = "sphinx_ok"
                    /\ \E k \in 1..(j - 1) : mk_log[k].ev = "sphinx_start"
                    /\ \A k \in (j + 1)..(i - 1) : mk_log[k].ev = "blank"
              /\ \A j \in DOMAIN mk_log : mk_log[j].ev # "sphinx_fail"
              /\ mk_log[i].arg = mk_builddir \o <<"dirhtml">>
    /\ LogHas("sphinx_fail") =>
          /\ mk_status = "error"
          /\ LastEv = "sphinx_fail"
          /\ ~LogHas("msg")
    /\ (mk_proc # <<>>) => (LastEv = "sphinx_start" /\ ~LogHas("msg"))

W_C9_DefaultGoalOverriddenBuilddir ==
    /\ mk_goals = <<"default">> /\ mk_builddir = <<"out">>
    /\ mk_status = "ok"
    /\ mk_log = << Event("sphinx_start", <<"out">>), Event("sphinx_ok", <<"out", "dirhtml">>),
                   Event("blank", <<>>), Event("msg", <<"out", "dirhtml">>) >>

\* C10 as stated: once a run that ends with clean is over, the build
\* directory holds no doctrees or dirhtml output and the documentation
\* sources are all in place.
CE_C10_CleanLeavesNoOutputAndKeepsSources ==
    (mk_status \in {"ok", "error"} /\ LastEv \in {"rm", "rm_fail"}) =>
        /\ OutputOf(mk_builddir, mk_fs) = {}
        /\ SourceFiles \subseteq mk_fs

\* C10, amended: every rm step of clean, whether rm succeeds or fails,
\* only removes files, changes nothing outside $(BUILDDIR), and leaves what
\* is below an entry of $(BUILDDIR) whose name starts with a dot; with
\* BUILDDIR as the Makefile sets it the sources stay. When rm exits 0
\* nothing the shell's * matches is left in $(BUILDDIR), so no doctrees or
\* dirhtml output, and a second clean has no file to remove. When rm fails
\* make ends with an error, runs no further line or goal, and what rm was
\* not told to remove is all still there. A dirhtml run that follows a
\* successful clean, in the same invocation or the next, starts
\* sphinx-build again, on directories that hold no file.
T_C10_CleanFrame ==
    [][ /\ Running("rm") =>
            /\ mk_fs' \subseteq mk_fs
            /\ \A p \in mk_fs \ mk_fs' :
                  /\ IsPrefix(Norm(mk_builddir), p) /\ Len(p) > Len(Norm(mk_builddir))
                  /\ ~Hidden(p[Len(Norm(mk_builddir)) + 1])
                  /\ mk_builddir = BUILDDIR => p \notin SourceFiles
            /\ \/ /\ LastEv' = "rm"
                  /\ mk_log' = Append(mk_log, Event("rm", mk_builddir))
                  /\ mk_status' = (IF Len(mk_queue) = 1 THEN "ok" ELSE "running")
                  /\ GlobStar(Norm(mk_builddir), mk_fs') = {}
                  /\ OutputOf(mk_builddir, mk_fs') = {}
                  /\ CleanTargets(mk_builddir, mk_fs') = {}
                  /\ CleanFs(mk_builddir, mk_fs') = mk_fs'
               \/ /\ LastEv' = "rm_fail"
                  /\ mk_log' = Append(mk_log, Event("rm_fail", mk_builddir))
                  /\ mk_status' = "error"
                  /\ mk_queue' = <<>>
                  /\ mk_proc' = <<>>
                  /\ CleanFs(mk_builddir, mk_fs) \subseteq mk_fs'
        /\ (LastEv = "rm" /\ mk_status = "running" /\ ~Running("rm")) =>
              /\ Running("sphinx")
              /\ mk_proc' = DirhtmlCmd(mk_builddir, mk_paper)
              /\ OutputOf(mk_builddir, mk_fs) = {}
        /\ (/\ LastEv = "rm" /\ mk_status = "ok" /\ mk_status' = "running"
            /\ mk_builddir' = mk_builddir) =>
              /\ OutputOf(mk_builddir', mk_fs') = {}
              /\ Head(mk_queue').cmd = "rm" =>
                    (CleanTargets(mk_builddir', mk_fs') = {}
                        /\ CleanFs(mk_builddir', mk_fs') = mk_fs')
              /\ (mk_goals' = <<>> \/ \E i \in DOMAIN mk_goals' : mk_goals'[i] # "clean")
                    => \E i \in DOMAIN mk_queue' : mk_queue'[i].cmd = "sphinx"
      ]_vars

W_C10_CleanThenRebuild ==
    /\ mk_runs = 2
    /\ mk_goals = <<"clean", "dirhtml">> /\ mk_builddir = BUILDDIR /\ mk_status = "ok"
    /\ mk_log = << Event("rm", BUILDDIR), Event("sphinx_start", BUILDDIR),
                   Event("sphinx_ok", <<"_build", "dirhtml">>),
                   Event("blank", <<>>), Event("msg", <<"_build", "dirhtml">>) >>
    /\ <<"_build", ".gitignore">> \in mk_fs
    /\ <<"_build", "dirhtml", ".buildinfo">> \in mk_fs
    /\ <<"_build", "doctrees", "api.doctree">> \in mk_fs
    /\ <<"out", "dirhtml", ".buildinfo">> \in mk_fs
    /\ SourceFiles \subseteq mk_fs

-----------------------------------------------------------------------------
(* Properties of the tox run *)

EventsOf(env) == SelectSeq(tx_trace, LAMBDA e : e.env = env)

HasWord(argv, w) == \E i \in DOMAIN argv : argv[i] = w

PytestEnvs == {e \in EnvSet :
                 \E i \in DOMAIN Lookup(e, "commands") :
                     HasWord(Lookup(e, "commands")[i], <<"pytest">>)}

\* C5: a run with no -e selects py38, py39, py310, doctest and lint, defined
\* by [testenv], [testenv:doctest] and [testenv:lint]; an environment whose
\* interpreter is missing ends skipped without running anything, the others
\* are all run, and the run fails only when an environment that ran failed.
T_C5_EnvlistAndSkips ==
    /\ EnvList = <<"py38", "py39", "py310", "doctest", "lint">>
    /\ \A e \in {"py38", "py39", "py310"} : SectionOf(e) = <<"testenv">>
    /\ SectionOf("doctest") = <<"testenv", "doctest">>
    /\ SectionOf("lint") = <<"testenv", "lint">>
    /\ DOMAIN tx_result = {"py38", "py39", "py310", "doctest", "lint"}
    /\ tx_pc # "idle" =>
          \A e \in EnvSet :
              ~InterpreterFound(e, tx_installed, tx_python) =>
                  /\ tx_result[e] \in {"pending", "skipped"}
                  /\ EventsOf(e) = <<>>
    /\ tx_pc = "done" =>
          /\ \A e \in EnvSet :
                IF InterpreterFound(e, tx_installed, tx_python)
                THEN tx_result[e] \in {"ok", "failed"}
                ELSE tx_result[e] = "skipped"
          /\ tx_exit = "failure" <=> \E e \in EnvSet : tx_result[e] = "failed"
          /\ tx_exit = "success" <=> \A e \in EnvSet : tx_result[e] \in {"ok", "skipped"}

W_C5_SkippedAndGreen ==
    /\ tx_pc = "done" /\ tx_exit = "success"
    /\ tx_installed = {"python3.9"}
    /\ tx_result["py38"] = "skipped" /\ tx_result["py310"] = "skipped"
    /\ tx_result["py39"] = "ok" /\ tx_result["doctest"] = "ok"
    /\ tx_result["lint"] = "ok"

\* C6: the environments that run pytest are py38, py39, py310 and doctest;
\* every command started in one of them has JAX_ENABLE_X64 = True in its
\* environment, whatever the variable was where tox was started; neither
\* named section has a setenv of its own.
T_C6_Jax64InPytestEnvs ==
    /\ PytestEnvs = {"py38", "py39", "py310", "doctest"}
    /\ \A i \in DOMAIN tx_trace :
          tx_trace[i].env \in PytestEnvs => tx_trace[i].jax64 = "True"
    /\ \A e \in DOMAIN NamedSections : "setenv" \notin DOMAIN NamedSections[e]

W_C6_DoctestPytestStarted ==
    /\ tx_osenv = "False"
    /\ \E i \in DOMAIN tx_trace :
          /\ tx_trace[i].env = "doctest"
          /\ HasWord(tx_trace[i].argv, <<"pytest">>)
          /\ tx_trace[i].jax64 = "True"
    /\ \E i \in DOMAIN tx_trace :
          /\ tx_trace[i].env = "py310"
          /\ HasWord(tx_trace[i].argv, <<"pytest">>)

IsPrefixOf(s, t) == Len(s) <= Len(t) /\ SubSeq(t, 1, Len(s)) = s

\* C8: the commands of an environment are started in the listed order, one
\* at a time, and none after one that failed; pytest in py38/py39/py310 is
\* run under coverage and only after pip freeze exited 0; doctest runs pip
\* freeze, then pytest --doctest-modules on the installed tinygp, with deps
\* numpyro alone and no coverage; lint installs no package and runs only
\* pre-commit run --all-files.
T_C8_CommandOrder ==
    /\ \A i \in DOMAIN tx_trace :
          tx_trace[i].status = "running" => i = Len(tx_trace)
    /\ \A e \in EnvSet :
          LET ev == EventsOf(e) IN
          /\ Len(ev) <= Len(Lookup(e, "commands"))
          /\ \A k \in DOMAIN ev :
                /\ ev[k].argv = Commands(e, tx_posargs, tx_python)[k]
                /\ k < Len(ev) => ev[k].status = "ok"
          /\ ev # <<>> => tx_deps[e] = Lookup(e, "deps")
    /\ \A e \in {"py38", "py39", "py310"} :
          LET ev == EventsOf(e) IN
          \A k \in DOMAIN ev :
             HasWord(ev[k].argv, <<"pytest">>) =>
                /\ IsPrefixOf(<< <<"python">>, <<"-m">>, <<"coverage">>, <<"run">>,
                                <<"-m">>, <<"pytest">>, <<"-v">> >>, ev[k].argv)
                /\ k = 2 /\ ev[1].argv = PipFreeze /\ ev[1].status = "ok"
                /\ tx_deps[e] = <<"coverage[toml]">>
    /\ LET ev == EventsOf("doctest") IN
          /\ \A k \in DOMAIN ev :
                /\ ~HasWord(ev[k].argv, <<"coverage">>)
                /\ HasWord(ev[k].argv, <<"pytest">>) =>
                     /\ IsPrefixOf(<< <<"python">>, <<"-m">>, <<"pytest">>,
                                     <<"--doctest-modules">>, <<"-v">>,
                                     <<"/", "tinygp", ".tox", "doctest", "lib", tx_python,
                                       "site-packages", "tinygp">> >>,
                                   ev[k].argv)
                     /\ k = 2 /\ ev[1].argv = PipFreeze /\ ev[1].status = "ok"
                     /\ tx_pkg["doctest"] = <<"test">>
          /\ ev # <<>> => tx_deps["doctest"] = <<"numpyro">>
    /\ tx_pkg["lint"] = "none"
    /\ \A k \in DOMAIN EventsOf("lint") : EventsOf("lint")[k].argv = PreCommit
    /\ Len(EventsOf("lint")) <= 1

W_C8_AllRanOneFreezeFailed ==
    /\ tx_pc = "done"
    /\ Len(EventsOf("py38")) = 1 /\ EventsOf("py38")[1].status = "failed"
    /\ Len(EventsOf("py39")) = 2 /\ EventsOf("py39")[2].status = "ok"
    /\ Len(EventsOf("doctest")) = 2
    /\ tx_python = "python3.11"
    /\ HasWord(EventsOf("doctest")[2].argv,
               <<"/", "tinygp", ".tox", "doctest", "lib", "python3.11",
                 "site-packages", "tinygp">>)
    /\ Len(EventsOf("lint")) = 1

-----------------------------------------------------------------------------
(* Properties of the mixture tutorial *)

\* C4: the operation that takes the kernel keyword and returns the
\* component mean is predict: every call that passes kernel= is a call of
\* predict.
CE_C4_KernelKeywordIsPredict ==
    \A i \in DOMAIN gp_calls :
        "kernel" \in gp_calls[i].kwargs => gp_calls[i].method = "predict"

====
